---- MODULE Spec2Model ----
(***************************************************************************)
(* micro_router: a header-only HTTP router (micro_router.hpp).             *)
(*                                                                         *)
(* Strings are sequences of one-character strings, so that the tokenizer   *)
(* (strip_query, trim_slashes, split_segments) and the pattern compiler    *)
(* (parse_pattern) are modelled character by character, as the code works. *)
(* Indices are 1-based; npos is the index no character has.                *)
(***************************************************************************)
EXTENDS Integers, Sequences, FiniteSets, TLC

VARIABLES
    routes_,  \* Router::routes_ : the route table, in registration order
    op,       \* the last operation called on the router
    qmethod,  \* the method argument of the last match
    qpath,    \* the path argument of the last match
    m,        \* the std::optional<Match> the last match returned
    req0,     \* the Request as the caller passed it to the last dispatch
    res0,     \* the Response as the caller passed it to the last dispatch
    req,      \* the caller's Request after the dispatch
    res,      \* the caller's Response after the dispatch
    ret,      \* the value the last dispatch returned
    calls,    \* the handler invocations of the last dispatch, in order
    input     \* the raw request target under test (the tokenizer's input)

vars == <<routes_, op, qmethod, qpath, m, req0, res0, req, res, ret, calls, input>>

----------------------------------------------------------------------------
(* Bounds of the model *)

MaxRoutes == 2
MaxPathRoutes == 1
MaxPathLen == 5
MaxSlash == 2

----------------------------------------------------------------------------
(* Types of micro_router.hpp *)

Methods == {"Any", "Get", "Post", "Put", "Patch", "Delete_", "Head", "Options"}

EmptyParams == [k \in {} |-> <<>>]

DefaultStatus == 200

Request(method, path, params) == [method |-> method, path |-> path, params |-> params]

Response(status, body) == [status |-> status, body |-> body]

DefaultRequest == Request("Any", <<>>, EmptyParams)

DefaultResponse == Response(DefaultStatus, <<>>)

Segment(kind, text) == [kind |-> kind, text |-> text]

Route(method, pattern, segments, handler) ==
    [method |-> method, pattern |-> pattern, segments |-> segments, handler |-> handler]

Match(handler, params) == [has_value |-> TRUE, handler |-> handler, params |-> params]

nullopt == [has_value |-> FALSE, handler |-> 0, params |-> EmptyParams]

----------------------------------------------------------------------------
(* namespace detail: the tokenizer *)

npos == 0

is_slash(c) == c = "/"

\* std::string_view::find(c, i): the first index >= i holding c, or npos
RECURSIVE find(_, _, _)
find(p, c, i) ==
    IF i > Len(p) THEN npos
    ELSE IF p[i] = c THEN i
    ELSE find(p, c, i + 1)

strip_query(p) ==
    LET q == find(p, "?", 1)
    IN  IF q = npos THEN p ELSE SubSeq(p, 1, q - 1)

RECURSIVE remove_leading(_)
remove_leading(p) ==
    IF p # <<>> /\ is_slash(Head(p)) THEN remove_leading(Tail(p)) ELSE p

RECURSIVE remove_trailing(_)
remove_trailing(p) ==
    IF p # <<>> /\ is_slash(p[Len(p)])
    THEN remove_trailing(SubSeq(p, 1, Len(p) - 1))
    ELSE p

\* mutant: if instead of while, one slash is removed at each edge
trim_one_slash(p) ==
    LET q == IF p # <<>> /\ is_slash(Head(p)) THEN Tail(p) ELSE p
    IN  IF q # <<>> /\ is_slash(q[Len(q)]) THEN SubSeq(q, 1, Len(q) - 1) ELSE q

trim_slashes(p) == remove_trailing(remove_leading(p))

\* mutant: empty tokens are skipped, a doubled slash collapses
RECURSIVE split_loop_collapse(_, _, _)
split_loop_collapse(path, i, out) ==
    IF ~(i <= Len(path)) THEN out
    ELSE LET j == find(path, "/", i)
         IN  IF j = npos
             THEN Append(out, SubSeq(path, i, Len(path)))
             ELSE split_loop_collapse(path, j + 1,
                      IF j = i THEN out ELSE Append(out, SubSeq(path, i, j - 1)))

\* the while loop of split_segments, from index i with the tokens out so far
RECURSIVE split_loop(_, _, _)
split_loop(path, i, out) ==
    IF ~(i <= Len(path)) THEN out
    ELSE LET j == find(path, "/", i)
         IN  IF j = npos
             THEN Append(out, SubSeq(path, i, Len(path)))
             ELSE split_loop(path, j + 1, Append(out, SubSeq(path, i, j - 1)))

split_segments(path) ==
    LET p == trim_slashes(strip_query(path))
    IN  IF p = <<>> THEN <<>> ELSE split_loop(p, 1, <<>>)

----------------------------------------------------------------------------
(* namespace detail: the pattern compiler *)

is_braced_param(s) == Len(s) >= 3 /\ s[1] = "{" /\ s[Len(s)] = "}"

unbrace(s) == SubSeq(s, 2, Len(s) - 1)

\* one iteration of the for loop of parse_pattern: the Segment of one part
parse_part(part) ==
    IF part # <<>> /\ part[1] = ":" /\ Len(part) > 1
    THEN Segment("Param", SubSeq(part, 2, Len(part)))
    ELSE IF is_braced_param(part) /\ unbrace(part) # <<>>
    THEN Segment("Param", unbrace(part))
    ELSE Segment("Static", part)

\* the for loop of parse_pattern over parts, from index i with segs so far
RECURSIVE parse_loop(_, _, _)
parse_loop(parts, i, segs) ==
    IF i > Len(parts) THEN segs
    ELSE parse_loop(parts, i + 1, Append(segs, parse_part(parts[i])))

parse_pattern(pattern) == parse_loop(split_segments(pattern), 1, <<>>)

\* mutant: the wildcard is compared like any other method
method_matches_exact(route_method, req_method) == route_method = req_method

\* mutant: the wildcard is honoured on the request side too
method_matches_either(route_method, req_method) ==
    IF route_method = "Any" \/ req_method = "Any" THEN TRUE ELSE route_method = req_method

method_matches(route_method, req_method) ==
    IF route_method = "Any" THEN TRUE ELSE route_method = req_method

----------------------------------------------------------------------------
(* Router::match *)

\* mutant: insert_or_assign, a later write replaces the value
insert_or_assign(params, name, value) ==
    [k \in DOMAIN params \cup {name} |-> IF k = name THEN value ELSE params[k]]

\* Params::emplace(name, value): inserts only when the key is absent
emplace(params, name, value) ==
    IF name \in DOMAIN params
    THEN params
    ELSE [k \in DOMAIN params \cup {name} |-> IF k = name THEN value ELSE params[k]]

\* the inner for loop of match over the segments of one route, from index i;
\* ok is false when a Static segment differs from the part at its position
RECURSIVE match_segments(_, _, _, _)
match_segments(segments, parts, i, params) ==
    IF i > Len(segments) THEN [ok |-> TRUE, params |-> params]
    ELSE IF segments[i].kind = "Static"
    THEN IF parts[i] # segments[i].text
         THEN [ok |-> FALSE, params |-> params]
         ELSE match_segments(segments, parts, i + 1, params)
    ELSE match_segments(segments, parts, i + 1,
                        emplace(params, segments[i].text, parts[i]))

\* mutant: the scan keeps going and the last passing route wins
RECURSIVE match_routes_last(_, _, _, _)
match_routes_last(routes, method, parts, k) ==
    IF k > Len(routes) THEN nullopt
    ELSE LET r == routes[k]
             later == match_routes_last(routes, method, parts, k + 1)
             s == match_segments(r.segments, parts, 1, EmptyParams)
         IN  IF later.has_value THEN later
             ELSE IF /\ method_matches(r.method, method)
                     /\ Len(r.segments) = Len(parts)
                     /\ s.ok
                  THEN Match(r.handler, s.params)
                  ELSE nullopt

\* mutant: params is declared outside the loop over the routes, so what a
\* rejected route captured stays in it
RECURSIVE stale_loop(_, _, _, _, _)
stale_loop(routes, method, parts, k, params) ==
    IF k > Len(routes) THEN nullopt
    ELSE LET r == routes[k]
         IN  IF ~method_matches(r.method, method)
             THEN stale_loop(routes, method, parts, k + 1, params)
             ELSE IF Len(r.segments) # Len(parts)
             THEN stale_loop(routes, method, parts, k + 1, params)
             ELSE LET s == match_segments(r.segments, parts, 1, params)
                  IN  IF s.ok
                      THEN Match(r.handler, s.params)
                      ELSE stale_loop(routes, method, parts, k + 1, s.params)

match_routes_stale(routes, method, parts, k) ==
    stale_loop(routes, method, parts, k, EmptyParams)

\* the outer for loop of match over routes_, from index k
RECURSIVE match_routes(_, _, _, _)
match_routes(routes, method, parts, k) ==
    IF k > Len(routes) THEN nullopt
    ELSE LET r == routes[k]
         IN  IF ~method_matches(r.method, method)
             THEN match_routes(routes, method, parts, k + 1)
             ELSE IF Len(r.segments) # Len(parts)
             THEN match_routes(routes, method, parts, k + 1)
             ELSE LET s == match_segments(r.segments, parts, 1, EmptyParams)
                  IN  IF s.ok
                      THEN Match(r.handler, s.params)
                      ELSE match_routes(routes, method, parts, k + 1)

match(method, path) == match_routes(routes_, method, split_segments(path), 1)

size == Len(routes_)

----------------------------------------------------------------------------
(* The operations of Router as actions.  The caller's Request and Response *)
(* live for one dispatch call (block scope, as in tests/test_basic.cpp);   *)
(* outside a dispatch they hold their default-constructed values.          *)
(* A handler is an opaque callable: it is identified by a number, 0 being  *)
(* the empty std::function of a default-constructed Match.                 *)

\* no Request or Response is alive after an add or a match
EndCall ==
    /\ req0' = DefaultRequest /\ req' = DefaultRequest
    /\ res0' = DefaultResponse /\ res' = DefaultResponse
    /\ ret' = FALSE /\ calls' = <<>>

\* mutant: the new route is inserted at the front of the table
add_front(mt, pattern, handler) ==
    /\ routes_' = <<Route(mt, pattern, parse_pattern(pattern), handler)>> \o routes_
    /\ op' = "add"
    /\ qmethod' = "Any" /\ qpath' = <<>> /\ m' = nullopt
    /\ EndCall
    /\ UNCHANGED input

add(mt, pattern, handler) ==
    /\ routes_' = Append(routes_, Route(mt, pattern, parse_pattern(pattern), handler))
    /\ op' = "add"
    /\ qmethod' = "Any" /\ qpath' = <<>> /\ m' = nullopt
    /\ EndCall
    /\ UNCHANGED input

any(pattern, handler) == add("Any", pattern, handler)

get(pattern, handler) == add("Get", pattern, handler)

post(pattern, handler) == add("Post", pattern, handler)

put(pattern, handler) == add("Put", pattern, handler)

patch(pattern, handler) == add("Patch", pattern, handler)

del(pattern, handler) == add("Delete_", pattern, handler)

head(pattern, handler) == add("Head", pattern, handler)

options(pattern, handler) == add("Options", pattern, handler)

\* a call of Router::match(mt, p) by the caller
do_match(mt, p) ==
    /\ m' = match(mt, p)
    /\ op' = "match"
    /\ qmethod' = mt /\ qpath' = p
    /\ EndCall
    /\ UNCHANGED <<routes_, input>>

\* handler h, as the handlers of the tests do, sets the status and writes a
\* body that names it
Invoke(h, rq, rs) == Response(DefaultStatus, <<h>>)

\* mutant: req.params is assigned before has_value is tested
dispatch_assign_first(rq, rs) ==
    LET mm == match(rq.method, rq.path)
        rq1 == [rq EXCEPT !.params = mm.params]
    IN  /\ op' = "dispatch"
        /\ qmethod' = rq.method /\ qpath' = rq.path /\ m' = mm
        /\ req0' = rq /\ res0' = rs
        /\ req' = rq1
        /\ IF ~mm.has_value
           THEN /\ res' = rs
                /\ calls' = <<>>
                /\ ret' = FALSE
           ELSE /\ res' = Invoke(mm.handler, rq1, rs)
                /\ calls' = <<[handler |-> mm.handler, params |-> rq1.params]>>
                /\ ret' = TRUE
        /\ UNCHANGED <<routes_, input>>

\* mutant: the captured mapping is merged into req.params, the caller's other
\* keys are kept
dispatch_merge(rq, rs) ==
    LET mm == match(rq.method, rq.path)
        merged == [k \in DOMAIN rq.params \cup DOMAIN mm.params |->
                     IF k \in DOMAIN mm.params THEN mm.params[k] ELSE rq.params[k]]
        rq1 == [rq EXCEPT !.params = merged]
    IN  /\ op' = "dispatch"
        /\ qmethod' = rq.method /\ qpath' = rq.path /\ m' = mm
        /\ req0' = rq /\ res0' = rs
        /\ IF ~mm.has_value
           THEN /\ req' = rq /\ res' = rs
                /\ calls' = <<>>
                /\ ret' = FALSE
           ELSE /\ req' = rq1
                /\ res' = Invoke(mm.handler, rq1, rs)
                /\ calls' = <<[handler |-> mm.handler, params |-> rq1.params]>>
                /\ ret' = TRUE
        /\ UNCHANGED <<routes_, input>>

dispatch(rq, rs) ==
    LET mm == match(rq.method, rq.path)
        rq1 == [rq EXCEPT !.params = mm.params]
    IN  /\ op' = "dispatch"
        /\ qmethod' = rq.method /\ qpath' = rq.path /\ m' = mm
        /\ req0' = rq /\ res0' = rs
        /\ IF ~mm.has_value
           THEN /\ req' = rq /\ res' = rs
                /\ calls' = <<>>
                /\ ret' = FALSE
           ELSE /\ req' = rq1
                /\ res' = Invoke(mm.handler, rq1, rs)
                /\ calls' = <<[handler |-> mm.handler, params |-> rq1.params]>>
                /\ ret' = TRUE
        /\ UNCHANGED <<routes_, input>>

----------------------------------------------------------------------------
(* Inputs *)

\* each registration passes its own callable: the k-th one is handler k
NewHandler == size + 1

\* what the caller may have left in req.params: nothing, or stale entries
CallerParams ==
    { EmptyParams,
      [k \in {<<"x">>, <<"z">>} |-> <<"o", "l", "d">>] }

CallerResponses == { DefaultResponse, Response(500, <<0>>) }

\* "/b/a", "/:x/a", "/:x/:x", "/{y}/:x", "/{y}/:x/a"
Patterns ==
    { <<"/", "b", "/", "a">>,
      <<"/", ":", "x", "/", "a">>,
      <<"/", ":", "x", "/", ":", "x">>,
      <<"/", "{", "y", "}", "/", ":", "x">>,
      <<"/", "{", "y", "}", "/", ":", "x", "/", "a">> }

\* "/b/a", "/a/b", "/b//a"
Paths ==
    { <<"/", "b", "/", "a">>,
      <<"/", "a", "/", "b">>,
      <<"/", "b", "/", "/", "a">> }

ReqMethods == {"Get", "Post"}

----------------------------------------------------------------------------
(* Spec: tables of param and static routes, requests with stale state *)

Init ==
    /\ routes_ = <<>>
    /\ op = "init"
    /\ qmethod = "Any"
    /\ qpath = <<>>
    /\ m = nullopt
    /\ req0 = DefaultRequest /\ req = DefaultRequest
    /\ res0 = DefaultResponse /\ res = DefaultResponse
    /\ ret = FALSE /\ calls = <<>>
    /\ input = <<>>

Next ==
    \/ /\ size < MaxRoutes
       /\ \E p \in Patterns : any(p, NewHandler)
    \/ /\ size < MaxRoutes
       /\ \E p \in Patterns : get(p, NewHandler)
    \/ \E mt \in ReqMethods, p \in Paths : do_match(mt, p)
    \/ \E mt \in ReqMethods, p \in Paths, ps \in CallerParams, rs \in CallerResponses :
          dispatch(Request(mt, p, ps), rs)

Spec == Init /\ [][Next]_vars

----------------------------------------------------------------------------
(* SpecVerbs: every verb wrapper against every request method *)

\* "/:x/a"
VerbPatterns == { <<"/", ":", "x", "/", "a">> }

\* "/b/a", "/a/b"
VerbPaths == { <<"/", "b", "/", "a">>, <<"/", "a", "/", "b">> }

NextVerbs ==
    \/ /\ size < MaxRoutes
       /\ \E p \in VerbPatterns : any(p, NewHandler)
    \/ /\ size < MaxRoutes
       /\ \E p \in VerbPatterns : get(p, NewHandler)
    \/ /\ size < MaxRoutes
       /\ \E p \in VerbPatterns : post(p, NewHandler)
    \/ /\ size < MaxRoutes
       /\ \E p \in VerbPatterns : put(p, NewHandler)
    \/ /\ size < MaxRoutes
       /\ \E p \in VerbPatterns : patch(p, NewHandler)
    \/ /\ size < MaxRoutes
       /\ \E p \in VerbPatterns : del(p, NewHandler)
    \/ /\ size < MaxRoutes
       /\ \E p \in VerbPatterns : head(p, NewHandler)
    \/ /\ size < MaxRoutes
       /\ \E p \in VerbPatterns : options(p, NewHandler)
    \/ \E mt \in Methods, p \in VerbPaths : do_match(mt, p)
    \/ \E mt \in Methods, p \in VerbPaths :
          dispatch(Request(mt, p, EmptyParams), DefaultResponse)

SpecVerbs == Init /\ [][NextVerbs]_vars

----------------------------------------------------------------------------
(* SpecPath: the tokenizer on every short request target *)

PathChars == {"/", "?", "a"}

RECURSIVE Strings(_)
Strings(n) ==
    IF n = 0 THEN { <<>> }
    ELSE LET shorter == Strings(n - 1)
         IN  shorter \cup { Append(s, c) : s \in shorter, c \in PathChars }

\* "/a/b", "/a//b", "?x"
ExtraPaths ==
    { <<"/", "a", "/", "b">>,
      <<"/", "a", "/", "/", "b">>,
      <<"?", "x">> }

AllPaths == Strings(MaxPathLen) \cup ExtraPaths

\* "/", "/a", "/:x", "/a/b", "/a//b"
PathPatterns ==
    { <<"/">>,
      <<"/", "a">>,
      <<"/", ":", "x">>,
      <<"/", "a", "/", "b">>,
      <<"/", "a", "/", "/", "b">> }

InitPath ==
    /\ routes_ = <<>>
    /\ op = "init"
    /\ qmethod = "Any"
    /\ qpath = <<>>
    /\ m = nullopt
    /\ req0 = DefaultRequest /\ req = DefaultRequest
    /\ res0 = DefaultResponse /\ res = DefaultResponse
    /\ ret = FALSE /\ calls = <<>>
    /\ input \in AllPaths

NextPath ==
    \/ /\ size < MaxPathRoutes
       /\ \E p \in PathPatterns : get(p, NewHandler)
    \/ do_match("Get", input)
    \/ dispatch(Request("Get", input, EmptyParams), DefaultResponse)

SpecPath == InitPath /\ [][NextPath]_vars

----------------------------------------------------------------------------
(* Vocabulary of the properties *)

Called == op \in {"match", "dispatch"}

\* the parts of the path the last match was called with
Parts == split_segments(qpath)

ParamPositions(r) == { i \in 1..Len(r.segments) : r.segments[i].kind = "Param" }

ParamNames(r) == { r.segments[i].text : i \in ParamPositions(r) }

AllStatic(r) == ParamPositions(r) = {}

DistinctNames(r) ==
    \A i, j \in ParamPositions(r) : i # j => r.segments[i].text # r.segments[j].text

\* the second and third checks of the scan: segment count and static texts
Structural(r, parts) ==
    /\ Len(r.segments) = Len(parts)
    /\ \A i \in 1..Len(r.segments) :
          r.segments[i].kind = "Static" => r.segments[i].text = parts[i]

Compatible(r, mt) == r.method = "Any" \/ r.method = mt

Passes(r, mt, parts) == Compatible(r, mt) /\ Structural(r, parts)

\* the indices of the routes that pass all three checks for the last match
Passing == { i \in 1..size : Passes(routes_[i], qmethod, Parts) }

Lowest(S) == CHOOSE i \in S : \A j \in S : i <= j

\* the index of the route whose handler the last match returned
WinnerIndex == CHOOSE i \in 1..size : routes_[i].handler = m.handler

Winner == routes_[WinnerIndex]

----------------------------------------------------------------------------
(* Properties *)

\* C1: match returns the handler of the lowest-index route that passes the
\* method, segment-count and static-text checks, and returns no match exactly
\* when no route passes them; a later route is never preferred.
C1_FirstPassingWins ==
    Called =>
        IF Passing = {}
        THEN ~m.has_value
        ELSE m.has_value /\ m.handler = routes_[Lowest(Passing)].handler

\* C1 witness: an all-static route registered after a param route, both
\* passing, and the earlier param route's handler returned.
C1_Witness ==
    /\ op = "match" /\ size = 2
    /\ Passing = {1, 2}
    /\ ~AllStatic(routes_[1]) /\ AllStatic(routes_[2])
    /\ m.has_value /\ m.handler = routes_[1].handler
    /\ routes_[1].handler # routes_[2].handler

\* C2 as stated: with the same parameter name at two positions of the winning
\* pattern, the value returned for the name is the part at the later position.
C2_LastWriteWins ==
    (Called /\ m.has_value) =>
        \A i, j \in ParamPositions(Winner) :
            (i < j /\ Winner.segments[i].text = Winner.segments[j].text)
                => m.params[Winner.segments[j].text] = Parts[j]

\* C2 amended: with the same parameter name at several positions of the
\* winning pattern, the value returned for the name is the part at the
\* earliest of them (the first write wins; later ones are ignored).
C2_FirstWriteWins ==
    (Called /\ m.has_value) =>
        \A j \in ParamPositions(Winner) :
            LET same == { i \in ParamPositions(Winner) :
                            Winner.segments[i].text = Winner.segments[j].text }
            IN  m.params[Winner.segments[j].text] = Parts[Lowest(same)]

\* C2 witness: a match on a pattern naming one parameter twice, on a path
\* whose parts at the two positions differ.
C2_Witness ==
    /\ op = "match" /\ m.has_value
    /\ \E i, j \in ParamPositions(Winner) :
          /\ i < j
          /\ Winner.segments[i].text = Winner.segments[j].text
          /\ Parts[i] # Parts[j]
          /\ m.params[Winner.segments[i].text] = Parts[i]

\* a registered all-static route whose literal pattern text is the path of
\* the last match, called with a method compatible with the route
StaticSelf(i) ==
    /\ AllStatic(routes_[i])
    /\ routes_[i].pattern = qpath
    /\ Compatible(routes_[i], qmethod)

C4_CaptureExact ==
    (Called /\ m.has_value /\ DistinctNames(Winner)) =>
        /\ DOMAIN m.params = ParamNames(Winner)
        /\ \A i \in ParamPositions(Winner) :
              m.params[Winner.segments[i].text] = Parts[i]

\* C4 witness: the first route captured a parameter and was then rejected on
\* a static mismatch; the second route wins, captures another part under the
\* same name and has a key of its own.
C4_Witness ==
    /\ op = "match" /\ size = 2
    /\ m.has_value /\ WinnerIndex = 2 /\ DistinctNames(Winner)
    /\ Compatible(routes_[1], qmethod)
    /\ Len(routes_[1].segments) = Len(Parts)
    /\ routes_[1].segments[1].kind = "Param"
    /\ ~Structural(routes_[1], Parts)
    /\ \E i \in ParamPositions(Winner) :
          /\ Winner.segments[i].text = routes_[1].segments[1].text
          /\ Parts[i] # Parts[1]
    /\ Cardinality(DOMAIN m.params) = 2

\* C5: a dispatch that finds no route returns false, invokes no handler and
\* leaves the response, the request (its params as the caller set them) and
\* the route table as they were.
C5_NoMatchUntouched ==
    [][(op' = "dispatch" /\ ~m'.has_value) =>
          /\ ret' = FALSE
          /\ calls' = <<>>
          /\ req' = req0' /\ res' = res0'
          /\ routes_' = routes_]_vars

\* C5 witness: a dispatch without match whose caller had set params and a
\* response beforehand.
C5_Witness ==
    /\ op = "dispatch" /\ ~m.has_value /\ ret = FALSE
    /\ req0.params # EmptyParams /\ res0 # DefaultResponse
    /\ req = req0 /\ res = res0
    /\ size > 0

\* C6: a dispatch that finds a route replaces req.params by exactly the
\* mapping match returns (the caller's keys are discarded), then invokes the
\* matched handler once, and no other, on the updated request, and returns
\* true; dispatch returns true exactly when match returns a result.
C6_MatchReplacesThenInvokes ==
    (op = "dispatch") =>
        /\ ret = m.has_value
        /\ ret = match(req0.method, req0.path).has_value
        /\ m.has_value =>
              /\ req.params = match(req0.method, req0.path).params
              /\ req.method = req0.method /\ req.path = req0.path
              /\ calls = << [handler |-> Winner.handler, params |-> req.params] >>
              /\ res = Invoke(Winner.handler, req, res0)

\* C6 witness: a matching dispatch whose caller had left keys in req.params
\* that the captured mapping does not have.
C6_Witness ==
    /\ op = "dispatch" /\ ret = TRUE
    /\ <<"z">> \in DOMAIN req0.params
    /\ <<"z">> \notin DOMAIN req.params
    /\ <<"x">> \in DOMAIN req.params
    /\ req.params[<<"x">>] # req0.params[<<"x">>]
    /\ Len(calls) = 1

\* C7: a route is method-compatible exactly when its method is Any or equals
\* the request method: the route returned is never one of another verb, a
\* structurally matching route of the request's verb or of Any always gives a
\* match, and a table without compatible route gives none.
C7_MethodCompatibility ==
    Called =>
        /\ m.has_value => Winner.method \in {"Any", qmethod}
        /\ \A i \in 1..size :
              (Structural(routes_[i], Parts) /\ routes_[i].method \in {"Any", qmethod})
                  => m.has_value
        /\ (\A i \in 1..size : routes_[i].method \notin {"Any", qmethod})
              => ~m.has_value

\* C7 witness: the table holds one GET route, the request is a POST for a
\* path the route matches structurally, and there is no match.
C7_Witness ==
    /\ op = "dispatch" /\ size = 1
    /\ routes_[1].method = "Get" /\ qmethod = "Post"
    /\ Structural(routes_[1], Parts)
    /\ ~m.has_value /\ ret = FALSE

HasQuery(p) == \E i \in 1..Len(p) : p[i] = "?"

Slashes(n) == [i \in 1..n |-> "/"]

\* "", "a", "/", "?/a"
Queries == { <<>>, <<"a">>, <<"/">>, <<"?", "/", "a">> }

\* the number of leading (trailing) slashes of p
LeadingSlashes(p) ==
    Cardinality({ k \in 1..Len(p) : \A i \in 1..k : p[i] = "/" })

TrailingSlashes(p) ==
    Cardinality({ k \in 1..Len(p) : \A i \in (Len(p) - k + 1)..Len(p) : p[i] = "/" })

\* C8: for a path without '?', match returns the same result when a query
\* suffix "?q" is appended and when leading or trailing slashes are added or
\* removed; "/a/", "/a" and "//a//" tokenize to ["a"], and "", "/" and "?x"
\* to the empty sequence.
C8_QueryAndEdgeSlashesIgnored ==
    /\ (op = "match" /\ ~HasQuery(qpath)) =>
          /\ \A i, j \in 0..MaxSlash :
                /\ match(qmethod, Slashes(i) \o qpath \o Slashes(j)) = m
                /\ \A q \in Queries :
                      match(qmethod, Slashes(i) \o qpath \o Slashes(j) \o <<"?">> \o q) = m
          /\ \A i \in 0..LeadingSlashes(qpath) :
                match(qmethod, SubSeq(qpath, i + 1, Len(qpath))) = m
          /\ \A j \in 0..TrailingSlashes(qpath) :
                match(qmethod, SubSeq(qpath, 1, Len(qpath) - j)) = m
    /\ (op = "match" /\ qpath \in { <<"/", "a", "/">>, <<"/", "a">>,
                                    <<"/", "/", "a", "/", "/">> })
          => Parts = << <<"a">> >>
    /\ (op = "match" /\ qpath \in { <<>>, <<"/">>, <<"?", "x">> })
          => Parts = <<>>

\* C8 witness: "//a//" matched by a route registered as "/a".
C8_Witness ==
    /\ op = "match" /\ qpath = <<"/", "/", "a", "/", "/">>
    /\ size >= 1 /\ routes_[1].pattern = <<"/", "a">>
    /\ m.has_value

\* the text before the first '?'
BeforeQuery(p) ==
    LET Q == { i \in 1..Len(p) : p[i] = "?" }
    IN  IF Q = {} THEN p ELSE SubSeq(p, 1, Lowest(Q) - 1)

\* the number of tokens of p when empty interior tokens count: one more than
\* the slashes between the first and the last non-slash character
TokenCount(p) ==
    LET s == BeforeQuery(p)
        N == { i \in 1..Len(s) : s[i] # "/" }
        lo == CHOOSE i \in N : \A k \in N : i <= k
        hi == CHOOSE i \in N : \A k \in N : k <= i
    IN  IF N = {} THEN 0
        ELSE 1 + Cardinality({ i \in lo..hi : s[i] = "/" })

StaticSeg(text) == Segment("Static", text)

\* C9: an interior doubled slash is not collapsed, in patterns and in paths:
\* "/a//b" gives the three tokens "a", "", "b", the empty one a Static
\* segment with empty text in a pattern; the segment count of a compiled
\* pattern and the part count of a path count the empty interior tokens;
\* route "/a/b" does not match path "/a//b", route "/a//b" matches path
\* "/a//b" and not "/a/b".
C9_InteriorEmptyTokenKept ==
    /\ Called => Len(Parts) = TokenCount(qpath)
    /\ \A i \in 1..size : Len(routes_[i].segments) = TokenCount(routes_[i].pattern)
    /\ (Called /\ qpath = <<"/", "a", "/", "/", "b">>)
          => Parts = << <<"a">>, <<>>, <<"b">> >>
    /\ \A i \in 1..size :
          routes_[i].pattern = <<"/", "a", "/", "/", "b">>
              => routes_[i].segments =
                     << StaticSeg(<<"a">>), StaticSeg(<<>>), StaticSeg(<<"b">>) >>
    /\ (Called /\ size = 1) =>
          /\ (routes_[1].pattern = <<"/", "a", "/", "b">>
                /\ qpath = <<"/", "a", "/", "/", "b">>) => ~m.has_value
          /\ (routes_[1].pattern = <<"/", "a", "/", "/", "b">>
                /\ qpath = <<"/", "a", "/", "/", "b">>) => m.has_value
          /\ (routes_[1].pattern = <<"/", "a", "/", "/", "b">>
                /\ qpath = <<"/", "a", "/", "b">>) => ~m.has_value

\* C9 witness: route "/a//b" matched by path "/a//b", whose second part is
\* the empty string.
C9_Witness ==
    /\ op = "match" /\ size = 1
    /\ routes_[1].pattern = <<"/", "a", "/", "/", "b">>
    /\ qpath = <<"/", "a", "/", "/", "b">>
    /\ Len(Parts) = 3 /\ Parts[2] = <<>>
    /\ m.has_value

\* C10: the table is append-only and resolutions are stable: add and every
\* verb wrapper grow the table by one route and leave the routes already
\* there as and where they were, match and dispatch leave the table alone,
\* and a request that selects a route with a mapping selects the same route
\* with the same mapping after every later step.
C10_AppendOnlyStable ==
    [][/\ op' = "add" => (size' = size + 1 /\ SubSeq(routes_', 1, size) = routes_)
       /\ op' \in {"match", "dispatch"} => routes_' = routes_
       /\ routes_' # routes_ =>
           \A mt \in Methods, p \in VerbPaths :
             LET before == match_routes(routes_, mt, split_segments(p), 1)
                 after == match_routes(routes_', mt, split_segments(p), 1)
             IN  before.has_value => after = before]_vars

\* C10 witness: a second route was registered that passes for a request the
\* first route passes for too, and the request still selects the first.
C10_Witness ==
    /\ op = "add" /\ size = 2
    /\ \E mt \in Methods, p \in VerbPaths :
          /\ Passes(routes_[1], mt, split_segments(p))
          /\ Passes(routes_[2], mt, split_segments(p))
          /\ match(mt, p).handler = routes_[1].handler
    /\ routes_[1].method # routes_[2].method

====
